---------------------------- MODULE Spec2Model ----------------------------
(***************************************************************************)
(* A model of the Glue importer of datacontract-cli                        *)
(* (src/datacontract/imports/glue_importer.py): the rewriting of a nested  *)
(* Hive type string into a JSON literal (generate_sub_fields), its parse   *)
(* (json.loads), the merge into the column record (format_schema), the     *)
(* recursive construction of the Field tree (import_record_fields,         *)
(* import_array_field) and the mapping of type names (map_type_from_sql).  *)
(*                                                                         *)
(* A Python str is a sequence of one-character strings, so that slicing,   *)
(* find/rfind, split, replace and startswith are computed character by     *)
(* character as the code computes them.  A Python value is a tagged        *)
(* record: None, str, bool, int, list, dict (an insertion-ordered sequence *)
(* of key/value pairs) and Field.                                          *)
(***************************************************************************)
EXTENDS Integers, Sequences, FiniteSets, TLC

VARIABLES
    schema,           \* format_schema's argument: the list of column dicts, rewritten in place
    raw,              \* the schema as it was handed in (never changes)
    pc,               \* position in the pipeline
    col,              \* index (1-based) of the column format_schema is at
    original_type_field, \* generate_sub_fields' working string
    iteration_count,  \* generate_sub_fields' iteration_count
    i,                \* number of loop iterations of generate_sub_fields done
    prev_field,       \* the working string before the last loop iteration
    opening,          \* index_opening_sub_element of the last iteration (0-based, -1 if none)
    closing,          \* index_closing_sub_element of the last iteration
    kind,             \* sub_content_type of the last iteration
    fields_from_string, \* content.split(",") of the last struct iteration
    replaced,         \* the string after line 169's replace, before json.loads
    parsed,           \* what the last generate_sub_fields call returned
    imported_fields,  \* what import_record_fields returned
    err,              \* the exception that ended the pipeline, "none" if none
    sql_type,         \* map_type_from_sql's argument (type-name mapper on its own)
    mapped            \* map_type_from_sql's result

vars == <<schema, raw, pc, col, original_type_field, iteration_count, i, prev_field,
          opening, closing, kind, fields_from_string, replaced, parsed,
          imported_fields, err, sql_type, mapped>>

-----------------------------------------------------------------------------
(* Bounds of the model *)

\* number of nodes (scalars, arrays, structs) of a generated type tree
MaxSize == 4

\* number of columns of a generated batch of columns
MaxCols == 2

-----------------------------------------------------------------------------
(* Python values *)

PyNone == [tag |-> "None"]
PyStr(s) == [tag |-> "str", s |-> s]
PyBool(b) == [tag |-> "bool", b |-> b]
PyInt(n) == [tag |-> "int", n |-> n]
PyList(xs) == [tag |-> "list", xs |-> xs]
PyDict(m) == [tag |-> "dict", m |-> m]

\* an outcome of a call: a value, or the exception it raised
Ok(v) == [exc |-> "none", val |-> v]
Raise(e) == [exc |-> e, val |-> PyNone]

Min(a, b) == IF a < b THEN a ELSE b
Max(a, b) == IF a > b THEN a ELSE b

-----------------------------------------------------------------------------
(* Python str operations, on sequences of characters *)

\* s[a:b] with Python's clamping and negative indices (0-based, b exclusive)
PyIdx(n, len) == IF n < 0 THEN Max(len + n, 0) ELSE Min(n, len)
Slice(s, a, b) ==
    LET lo == PyIdx(a, Len(s))
        hi == PyIdx(b, Len(s))
    IN  IF lo >= hi THEN <<>> ELSE SubSeq(s, lo + 1, hi)
\* s[a:]
SliceFrom(s, a) == Slice(s, a, Len(s))
\* s[:b]
SliceTo(s, b) == Slice(s, 0, b)

\* s.count(c) for a one-character c
Count(s, c) == Cardinality({k \in 1..Len(s) : s[k] = c})

\* s.find(c) and s.rfind(c) for a one-character c: 0-based, -1 when absent
Find(s, c) ==
    LET hits == {k \in 1..Len(s) : s[k] = c}
    IN  IF hits = {} THEN -1 ELSE (CHOOSE k \in hits : \A m \in hits : k <= m) - 1
RFind(s, c) ==
    LET hits == {k \in 1..Len(s) : s[k] = c}
    IN  IF hits = {} THEN -1 ELSE (CHOOSE k \in hits : \A m \in hits : k >= m) - 1

\* s.startswith(p)
StartsWith(s, p) == Len(s) >= Len(p) /\ SubSeq(s, 1, Len(p)) = p

\* s.split(c) for a one-character c: always at least one piece
RECURSIVE Split(_, _)
Split(s, c) ==
    LET p == Find(s, c)
    IN  IF p = -1 THEN <<s>>
        ELSE <<SliceTo(s, p)>> \o Split(SliceFrom(s, p + 1), c)

\* s.replace(a, b) for one-character a and b
Replace(s, a, b) == [k \in 1..Len(s) |-> IF s[k] = a THEN b ELSE s[k]]

UpperCase == <<"A","B","C","D","E","F","G","H","I","J","K","L","M",
               "N","O","P","Q","R","S","T","U","V","W","X","Y","Z">>
LowerCase == <<"a","b","c","d","e","f","g","h","i","j","k","l","m",
               "n","o","p","q","r","s","t","u","v","w","x","y","z">>
Digits == {"0","1","2","3","4","5","6","7","8","9"}

\* s.lower()
LowerChar(c) ==
    IF \E k \in 1..26 : UpperCase[k] = c
    THEN LowerCase[CHOOSE k \in 1..26 : UpperCase[k] = c]
    ELSE c
Lower(s) == [k \in 1..Len(s) |-> LowerChar(s[k])]

\* the characters the regular expression's \w matches
IsWordChar(c) ==
    \/ \E k \in 1..26 : UpperCase[k] = c \/ LowerCase[k] = c
    \/ c \in Digits
    \/ c = "_"

\* re.findall(r'\b\w+\b', s): the maximal runs of word characters, left to right
RECURSIVE FindAllWords(_)
FindAllWords(s) ==
    LET starts == {k \in 1..Len(s) : IsWordChar(s[k])}
    IN  IF starts = {} THEN <<>>
        ELSE LET b == CHOOSE k \in starts : \A m \in starts : k <= m
                 stops == {k \in b..Len(s) : ~IsWordChar(s[k])}
                 e == IF stops = {} THEN Len(s) + 1
                      ELSE CHOOSE k \in stops : \A m \in stops : k <= m
             IN  <<SubSeq(s, b, e - 1)>> \o FindAllWords(SubSeq(s, e, Len(s)))

-----------------------------------------------------------------------------
(* Python dict operations: a dict is a sequence of [k, v], in insertion order *)

HasKey(d, key) == \E n \in 1..Len(d.m) : d.m[n].k = key
\* d.get(key): None when the key is missing
Get(d, key) ==
    IF HasKey(d, key) THEN d.m[CHOOSE n \in 1..Len(d.m) : d.m[n].k = key].v ELSE PyNone
\* d[key] = v: an existing key keeps its place and takes the new value
DictSet(d, key, v) ==
    IF HasKey(d, key)
    THEN PyDict([n \in 1..Len(d.m) |-> IF d.m[n].k = key THEN [k |-> key, v |-> v] ELSE d.m[n]])
    ELSE PyDict(Append(d.m, [k |-> key, v |-> v]))

-----------------------------------------------------------------------------
(* map_type_from_sql *)

\* a mapper that forgets to lower-case its argument
LowerCasedVerbatim(s) == s

\* sql_type.lower(), as every test of the chain takes it
LowerCased(s) == Lower(s)

map_type_from_sql(t) ==
    IF t = PyNone THEN Ok(PyNone)
    ELSE IF t.tag # "str" THEN Raise("AttributeError")
    ELSE LET l == LowerCased(t.s) IN
         IF StartsWith(l, <<"v","a","r","c","h","a","r">>) THEN Ok(PyStr(<<"v","a","r","c","h","a","r">>))
    ELSE IF StartsWith(l, <<"s","t","r","i","n","g">>) THEN Ok(PyStr(<<"s","t","r","i","n","g">>))
    ELSE IF StartsWith(l, <<"t","e","x","t">>) THEN Ok(PyStr(<<"t","e","x","t">>))
    ELSE IF StartsWith(l, <<"b","y","t","e">>) THEN Ok(PyStr(<<"b","y","t","e">>))
    ELSE IF StartsWith(l, <<"s","h","o","r","t">>) THEN Ok(PyStr(<<"s","h","o","r","t">>))
    ELSE IF StartsWith(l, <<"i","n","t","e","g","e","r">>) THEN Ok(PyStr(<<"i","n","t","e","g","e","r">>))
    ELSE IF StartsWith(l, <<"l","o","n","g">>) THEN Ok(PyStr(<<"l","o","n","g">>))
    ELSE IF StartsWith(l, <<"b","i","g","i","n","t">>) THEN Ok(PyStr(<<"l","o","n","g">>))
    ELSE IF StartsWith(l, <<"f","l","o","a","t">>) THEN Ok(PyStr(<<"f","l","o","a","t">>))
    ELSE IF StartsWith(l, <<"d","o","u","b","l","e">>) THEN Ok(PyStr(<<"d","o","u","b","l","e">>))
    ELSE IF StartsWith(l, <<"b","o","o","l","e","a","n">>) THEN Ok(PyStr(<<"b","o","o","l","e","a","n">>))
    ELSE IF StartsWith(l, <<"t","i","m","e","s","t","a","m","p">>) THEN Ok(PyStr(<<"t","i","m","e","s","t","a","m","p">>))
    ELSE IF StartsWith(l, <<"d","a","t","e">>) THEN Ok(PyStr(<<"d","a","t","e">>))
    ELSE IF StartsWith(l, <<"a","r","r","a","y">>) THEN Ok(PyStr(<<"a","r","r","a","y">>))
    ELSE IF StartsWith(l, <<"s","t","r","u","c","t">>) THEN Ok(PyStr(<<"s","t","r","u","c","t">>))
    ELSE Ok(PyStr(<<"v","a","r","i","a","n","t">>))

-----------------------------------------------------------------------------
(* generate_sub_fields: one iteration of the loop *)

\* a rewriting that joins the members with the comma itself
SeparatorComma == ","

\* the placeholder that separates the members of a rewritten literal
Separator == "|"

\* the literal of one struct field (the body of the inner loop)
FieldLiteral(field) ==
    IF Count(field, ":") = 1
    THEN LET sub_filed == Split(field, ":")
         IN  <<"{","'","N","a","m","e","'",":"," ","'">> \o sub_filed[1] \o <<"'", Separator>> \o <<"'","T","y","p","e","'",":"," ","'">>
                 \o sub_filed[2] \o <<"'","}">>
    ELSE LET name_position == Find(field, ":")
             name == SliceTo(field, name_position)
             new_field == SliceFrom(field, name_position + 1)
         IN  <<"{","'","N","a","m","e","'",":","'">> \o name \o <<"'", Separator>> \o new_field \o <<"}">>

\* fileds_to_add of every piece, joined by the placeholder
RECURSIVE JoinFields(_, _)
JoinFields(pieces, x) ==
    IF x > Len(pieces) THEN <<>>
    ELSE FieldLiteral(pieces[x])
             \o (IF x < Len(pieces) THEN <<Separator>> ELSE <<>>)
             \o JoinFields(pieces, x + 1)

\* the struct branch: the string that replaces struct<content>
StructLiteral(content) ==
    <<"'","T","y","p","e","'",":","'","s","t","r","u","c","t","'">> \o <<Separator>> \o <<"'","F","i","e","l","d","s","'",":">>
        \o <<"[">> \o JoinFields(Split(content, ","), 1) \o <<"]">>

\* the array branch: the string that replaces array<content>
ArrayLiteral(content) ==
    IF StartsWith(content, <<"'","T","y","p","e","'">>)
    THEN <<"'","T","y","p","e","'",":","'","a","r","r","a","y","'">> \o <<Separator>> \o <<"'","I","t","e","m","s","'",":","{">> \o content \o <<"}">>
    ELSE <<"'","T","y","p","e","'",":","'","a","r","r","a","y","'">> \o <<Separator>> \o <<"'","I","t","e","m","s","'",":","{","'","T","y","p","e","'",":","'">> \o content \o <<"'","}">>

\* a loop that takes the leftmost '<' instead of the rightmost
OpeningIndexLeftmost(s) == Find(s, "<")

\* index_opening_sub_element
OpeningIndex(s) == RFind(s, "<")
\* index_closing_sub_element
ClosingIndex(s) == OpeningIndex(s) + Find(SliceFrom(s, OpeningIndex(s)), ">")

\* one pass of the loop body over the working string s
LoopBody(s) ==
    LET index_opening_sub_element == OpeningIndex(s)
        index_closing_sub_element == ClosingIndex(s)
        content == Slice(s, index_opening_sub_element + 1, index_closing_sub_element)
        prev_content == SliceTo(s, index_opening_sub_element)
        end_content == SliceFrom(s, index_closing_sub_element + 1)
        words == FindAllWords(prev_content)
    IN  IF words = <<>> THEN [exc |-> "IndexError", s |-> s, kind |-> <<>>, pieces |-> <<>>]
        ELSE LET sub_content_type == words[Len(words)]
             IN  IF sub_content_type = <<"s","t","r","u","c","t">>
                 THEN [exc |-> "none",
                       s |-> SliceTo(prev_content, -6) \o StructLiteral(content) \o end_content,
                       kind |-> sub_content_type,
                       pieces |-> Split(content, ",")]
                 ELSE IF sub_content_type = <<"a","r","r","a","y">>
                 THEN [exc |-> "none",
                       s |-> SliceTo(prev_content, -5) \o ArrayLiteral(content) \o end_content,
                       kind |-> sub_content_type,
                       pieces |-> <<>>]
                 ELSE [exc |-> "none", s |-> s, kind |-> sub_content_type, pieces |-> <<>>]

\* line 169: the placeholder becomes ',' and the single quotes double quotes;
\* line 171: the outer braces
FinalText(s) == <<"{">> \o Replace(Replace(s, Separator, ","), "'", "\"") \o <<"}">>

-----------------------------------------------------------------------------
(* json.loads, for the texts the rewriting can produce: objects, arrays,   *)
(* strings without escapes, integers, true, false, null; whitespace is     *)
(* skipped where JSON allows it.  A text that does not parse raises        *)
(* JSONDecodeError.                                                        *)

IsWs(c) == c \in {" ", "\t", "\n", "\r"}

\* the first position >= p that holds no whitespace (Len(s) + 1 at the end)
SkipWs(s, p) ==
    LET rest == {k \in p..Len(s) : ~IsWs(s[k])}
    IN  IF rest = {} THEN Len(s) + 1 ELSE CHOOSE k \in rest : \A m \in rest : k <= m

At(s, p, c) == p <= Len(s) /\ s[p] = c

Parsed(v, p) == [ok |-> TRUE, val |-> v, pos |-> p]
NoParse == [ok |-> FALSE, val |-> PyNone, pos |-> 0]

\* a string whose opening quote is at p - 1: up to the next double quote
ParseString(s, p) ==
    LET quotes == {k \in p..Len(s) : s[k] = "\""}
    IN  IF quotes = {} THEN NoParse
        ELSE LET q == CHOOSE k \in quotes : \A m \in quotes : k <= m
             IN  Parsed(PyStr(SubSeq(s, p, q - 1)), q + 1)

RECURSIVE DigitsValue(_)
DigitsValue(ds) ==
    IF ds = <<>> THEN 0
    ELSE 10 * DigitsValue(SubSeq(ds, 1, Len(ds) - 1))
         + (CHOOSE n \in 0..9 : <<"0","1","2","3","4","5","6","7","8","9">>[n + 1] = ds[Len(ds)])

\* an integer at p: 0, or a run of digits that does not start with 0
ParseNumber(s, p) ==
    IF s[p] = "0" THEN Parsed(PyInt(0), p + 1)
    ELSE LET stops == {k \in p..Len(s) : s[k] \notin Digits}
             e == IF stops = {} THEN Len(s) + 1
                  ELSE CHOOSE k \in stops : \A m \in stops : k <= m
         IN  Parsed(PyInt(DigitsValue(SubSeq(s, p, e - 1))), e)

RECURSIVE ParseValue(_, _), ParseMembers(_, _, _), ParseElements(_, _, _)
\* a value at p (whitespace already skipped)
ParseValue(s, p) ==
    IF p > Len(s) THEN NoParse
    ELSE IF s[p] = "\"" THEN ParseString(s, p + 1)
    ELSE IF s[p] = "{" THEN
        LET q == SkipWs(s, p + 1)
        IN  IF At(s, q, "}") THEN Parsed(PyDict(<<>>), q + 1)
            ELSE ParseMembers(s, q, PyDict(<<>>))
    ELSE IF s[p] = "[" THEN
        LET q == SkipWs(s, p + 1)
        IN  IF At(s, q, "]") THEN Parsed(PyList(<<>>), q + 1)
            ELSE ParseElements(s, q, <<>>)
    ELSE IF s[p] \in Digits THEN ParseNumber(s, p)
    ELSE IF StartsWith(SubSeq(s, p, Len(s)), <<"n","u","l","l">>) THEN Parsed(PyNone, p + 4)
    ELSE IF StartsWith(SubSeq(s, p, Len(s)), <<"t","r","u","e">>) THEN Parsed(PyBool(TRUE), p + 4)
    ELSE IF StartsWith(SubSeq(s, p, Len(s)), <<"f","a","l","s","e">>) THEN Parsed(PyBool(FALSE), p + 5)
    ELSE NoParse

\* the members of an object from p, where a key's opening quote must be
ParseMembers(s, p, acc) ==
    IF ~At(s, p, "\"") THEN NoParse
    ELSE LET key == ParseString(s, p + 1)
         IN  IF ~key.ok THEN NoParse
             ELSE LET colon == SkipWs(s, key.pos)
                  IN  IF ~At(s, colon, ":") THEN NoParse
                      ELSE LET v == ParseValue(s, SkipWs(s, colon + 1))
                           IN  IF ~v.ok THEN NoParse
                               ELSE LET next == SkipWs(s, v.pos)
                                        d == DictSet(acc, key.val.s, v.val)
                                    IN  IF At(s, next, "}") THEN Parsed(d, next + 1)
                                        ELSE IF At(s, next, ",")
                                        THEN ParseMembers(s, SkipWs(s, next + 1), d)
                                        ELSE NoParse

\* the elements of an array from p
ParseElements(s, p, acc) ==
    LET v == ParseValue(s, p)
    IN  IF ~v.ok THEN NoParse
        ELSE LET next == SkipWs(s, v.pos)
             IN  IF At(s, next, "]") THEN Parsed(PyList(Append(acc, v.val)), next + 1)
                 ELSE IF At(s, next, ",")
                 THEN ParseElements(s, SkipWs(s, next + 1), Append(acc, v.val))
                 ELSE NoParse

\* json.loads(text): the whole text must be one value
json_loads(text) ==
    LET v == ParseValue(text, SkipWs(text, 1))
    IN  IF v.ok /\ SkipWs(text, v.pos) = Len(text) + 1 THEN Ok(v.val)
        ELSE Raise("JSONDecodeError")

-----------------------------------------------------------------------------
(* The Field tree: import_record_fields and import_array_field *)

\* Field(): a Field with nothing set
NewField ==
    [tag |-> "Field", type |-> PyNone, required |-> PyNone, description |-> PyNone,
     fields |-> PyNone, items |-> PyNone]

\* the truth value Python's if gives a value
Truthy(v) ==
    CASE v.tag = "None" -> FALSE
      [] v.tag = "bool" -> v.b
      [] v.tag = "int" -> v.n # 0
      [] v.tag = "str" -> v.s # <<>>
      [] v.tag = "list" -> v.xs # <<>>
      [] v.tag = "dict" -> v.m # <<>>
      [] OTHER -> TRUE

\* a builder that marks every record required
RequiredAlways(field) == PyBool(TRUE)

\* lines 198-201: required, from the record's Hive flag
RequiredOf(field) == PyBool(Truthy(Get(field, <<"H","i","v","e">>)))

\* a builder that keeps the first Field stored under a name
StoreFieldFirstWins(acc, name, f) == IF HasKey(acc, name) THEN acc ELSE DictSet(acc, name, f)

\* line 214: imported_fields[field.get("Name")] = imported_field
StoreField(acc, name, f) == DictSet(acc, name, f)

\* what a for loop iterates over: the elements of a list, the keys of a dict,
\* the characters of a str
Iterate(v) ==
    CASE v.tag = "list" -> Ok(v.xs)
      [] v.tag = "dict" -> Ok([n \in 1..Len(v.m) |-> PyStr(v.m[n].k)])
      [] v.tag = "str" -> Ok([n \in 1..Len(v.s) |-> PyStr(<<v.s[n]>>)])
      [] OTHER -> Raise("TypeError")

RECURSIVE import_record_fields(_), import_array_field(_), ImportedField(_), ImportLoop(_, _, _)
\* lines 194-212: the Field of one record
ImportedField(field) ==
    IF field.tag # "dict" THEN Raise("AttributeError")
    ELSE LET field_type == map_type_from_sql(Get(field, <<"T","y","p","e">>))
             imported_field == [NewField EXCEPT !.required = RequiredOf(field),
                                                !.description = Get(field, <<"C","o","m","m","e","n","t">>)]
         IN  IF field_type.exc # "none" THEN field_type
             ELSE IF field_type.val = PyStr(<<"s","t","r","u","c","t">>)
             THEN LET sub == import_record_fields(Get(field, <<"F","i","e","l","d","s">>))
                  IN  IF sub.exc # "none" THEN sub
                      ELSE Ok([imported_field EXCEPT !.type = field_type.val,
                                                     !.fields = sub.val])
             ELSE IF field_type.val = PyStr(<<"a","r","r","a","y">>)
             THEN LET sub == import_array_field(Get(field, <<"I","t","e","m","s">>))
                  IN  IF sub.exc # "none" THEN sub
                      ELSE Ok([imported_field EXCEPT !.type = field_type.val,
                                                     !.items = sub.val])
             ELSE Ok([imported_field EXCEPT !.type = field_type.val])

\* the loop of import_record_fields from the n-th record on
ImportLoop(xs, n, acc) ==
    IF n > Len(xs) THEN Ok(acc)
    ELSE LET f == ImportedField(xs[n])
         IN  IF f.exc # "none" THEN f
             ELSE IF Get(xs[n], <<"N","a","m","e">>).tag \in {"list", "dict"} THEN Raise("TypeError")
             ELSE ImportLoop(xs, n + 1, StoreField(acc, Get(xs[n], <<"N","a","m","e">>), f.val))

import_record_fields(record_fields) ==
    LET it == Iterate(record_fields)
    IN  IF it.exc # "none" THEN it ELSE ImportLoop(it.val, 1, PyDict(<<>>))

import_array_field(array_field) ==
    IF array_field.tag # "dict" THEN Raise("AttributeError")
    ELSE LET field_type == map_type_from_sql(Get(array_field, <<"T","y","p","e">>))
         IN  IF field_type.exc # "none" THEN field_type
             ELSE IF field_type.val = PyStr(<<"s","t","r","u","c","t">>)
             THEN LET sub == import_record_fields(Get(array_field, <<"F","i","e","l","d","s">>))
                  IN  IF sub.exc # "none" THEN sub
                      ELSE Ok([NewField EXCEPT !.type = field_type.val, !.fields = sub.val])
             ELSE IF field_type.val = PyStr(<<"a","r","r","a","y">>)
             THEN LET sub == import_array_field(Get(array_field, <<"I","t","e","m","s">>))
                  IN  IF sub.exc # "none" THEN sub
                      ELSE Ok([NewField EXCEPT !.type = field_type.val, !.fields = sub.val])
             ELSE Ok([NewField EXCEPT !.type = field_type.val])

-----------------------------------------------------------------------------
(* The inputs: type strings and column records *)

ScalarNames == {<<"i","n","t">>, <<"s","t","r","i","n","g">>, <<"d","e","c","i","m","a","l","(","1","0",",","2",")">>}
FieldNames == <<"a", "b", "c", "d", "e", "f", "g", "h">>

\* the type strings of the grammar scalar | array<T> | struct<n:T,...> whose
\* tree has n nodes; FieldLists(m, pos): the field lists of m nodes whose
\* first field is named FieldNames[pos]
RECURSIVE TypesOfSize(_), FieldLists(_, _)
TypesOfSize(n) ==
    IF n = 1 THEN ScalarNames
    ELSE {<<"a","r","r","a","y","<">> \o t \o <<">">> : t \in TypesOfSize(n - 1)}
         \cup {<<"s","t","r","u","c","t","<">> \o fl \o <<">">> : fl \in FieldLists(n - 1, 1)}
FieldLists(m, pos) ==
    {<<FieldNames[pos], ":">> \o t : t \in TypesOfSize(m)}
    \cup UNION {{<<FieldNames[pos], ":">> \o t \o <<",">> \o rest :
                    t \in TypesOfSize(j), rest \in FieldLists(m - j, pos + 1)} :
                j \in 1..(m - 1)}

\* the composite types of the grammar, up to MaxSize nodes
WellFormedTypes == UNION {TypesOfSize(n) : n \in 2..MaxSize}

\* a well-formed type with its last '>' missing, or with one '>' too many
UnbalancedTypes ==
    {SubSeq(t, 1, Len(t) - 1) : t \in WellFormedTypes}
    \cup {t \o <<">">> : t \in WellFormedTypes}

\* type names without any bracket
BracketFreeTypes ==
    {<<"b","i","g","i","n","t">>, <<"s","t","r","i","n","g">>, <<"i","n","t">>, <<"w","e","i","r","d","t","y","p","e","1","2","3">>, <<"v","a","r","c","h","a","r","(","2","5","5",")">>, <<"d","e","c","i","m","a","l","(","1","0",",","2",")">>,
     <<"t","i","m","e","s","t","a","m","p">>, <<"A","R","R","A","Y">>, <<"a","r","r","a","y","l","i","s","t">>, <<"a","r","r","a","y">>, <<"s","t","r","u","c","t","u","r","e">>, <<"S","t","r","u","c","t">>}

\* a column record as get_glue_table_schema builds it: Name, Type, and for a
\* partition key Hive and Comment; a plain column may carry a Comment
Column(name, type, hive, comment) ==
    LET c0 == PyDict(<< [k |-> <<"N","a","m","e">>, v |-> PyStr(name)], [k |-> <<"T","y","p","e">>, v |-> PyStr(type)] >>)
        c1 == IF hive THEN DictSet(c0, <<"H","i","v","e">>, PyBool(TRUE)) ELSE c0
    IN  IF comment = <<>> THEN c1 ELSE DictSet(c1, <<"C","o","m","m","e","n","t">>, PyStr(comment))

ColumnMetas ==
    {[hive |-> FALSE, comment |-> <<>>],
     [hive |-> FALSE, comment |-> <<"c">>],
     [hive |-> TRUE, comment |-> <<"P","a","r","t","i","t","i","o","n"," ","K","e","y">>]}

\* the one-column schemas: a well-formed type under every kind of column, any
\* other type in a plain column
SingleSchemas ==
    {<<Column(<<"i","d">>, t, m.hive, m.comment)>> : t \in WellFormedTypes, m \in ColumnMetas}
    \cup {<<Column(<<"i","d">>, t, FALSE, <<>>)>> : t \in UnbalancedTypes \cup BracketFreeTypes}
    \cup {<<Column(<<"p">>, <<"s","t","r","i","n","g">>, TRUE, <<"P","a","r","t","i","t","i","o","n"," ","K","e","y">>)>>}

\* the columns of a batch: two names, so that names repeat
BatchColumns ==
    {Column(n, t, h, <<>>) :
        n \in {<<"x">>, <<"y">>}, t \in {<<"s","t","r","i","n","g">>, <<"a","r","r","a","y","<","i","n","t",">">>, <<"s","t","r","u","c","t","<","a",":","i","n","t",">">>}, h \in BOOLEAN}
BatchSchemas == UNION {[1..n -> BatchColumns] : n \in 1..MaxCols}

UpperChar(c) ==
    IF \E k \in 1..26 : LowerCase[k] = c
    THEN UpperCase[CHOOSE k \in 1..26 : LowerCase[k] = c]
    ELSE c
Upper(s) == [k \in 1..Len(s) |-> UpperChar(s[k])]

\* the ordered table of map_type_from_sql: the prefix and what it maps to
TypeTable ==
    << <<<<"v","a","r","c","h","a","r">>, <<"v","a","r","c","h","a","r">>>>, <<<<"s","t","r","i","n","g">>, <<"s","t","r","i","n","g">>>>, <<<<"t","e","x","t">>, <<"t","e","x","t">>>>,
       <<<<"b","y","t","e">>, <<"b","y","t","e">>>>, <<<<"s","h","o","r","t">>, <<"s","h","o","r","t">>>>, <<<<"i","n","t","e","g","e","r">>, <<"i","n","t","e","g","e","r">>>>,
       <<<<"l","o","n","g">>, <<"l","o","n","g">>>>, <<<<"b","i","g","i","n","t">>, <<"l","o","n","g">>>>, <<<<"f","l","o","a","t">>, <<"f","l","o","a","t">>>>,
       <<<<"d","o","u","b","l","e">>, <<"d","o","u","b","l","e">>>>, <<<<"b","o","o","l","e","a","n">>, <<"b","o","o","l","e","a","n">>>>,
       <<<<"t","i","m","e","s","t","a","m","p">>, <<"t","i","m","e","s","t","a","m","p">>>>, <<<<"d","a","t","e">>, <<"d","a","t","e">>>>, <<<<"a","r","r","a","y">>, <<"a","r","r","a","y">>>>,
       <<<<"s","t","r","u","c","t">>, <<"s","t","r","u","c","t">>>> >>
TableKeys == {TypeTable[n][1] : n \in 1..Len(TypeTable)}

\* the arguments map_type_from_sql is tried on: None, and names in several
\* spellings, with a suffix, cut short and behind another character
MapInputs ==
    {PyNone}
    \cup {PyStr(s) : s \in TableKeys}
    \cup {PyStr(Upper(s)) : s \in TableKeys}
    \cup {PyStr(<<UpperChar(s[1])>> \o SubSeq(s, 2, Len(s))) : s \in TableKeys}
    \cup {PyStr(s \o <<"(","2","5","5",")">>) : s \in TableKeys}
    \cup {PyStr(SubSeq(s, 1, Len(s) - 1)) : s \in TableKeys}
    \cup {PyStr(<<"x">> \o s) : s \in TableKeys}
    \cup {PyStr(s) : s \in {<<>>, <<"i","n","t">>, <<"w","e","i","r","d","t","y","p","e","1","2","3">>, <<"d","e","c","i","m","a","l","(","1","0",",","2",")">>, <<"s","t","r","i","n","g","t","e","x","t">>,
                            <<"t","e","x","t","s","t","r","i","n","g">>, <<"B","I","G","I","N","T","(","2","0",")">>, <<"a","r","r","a","y","<","i","n","t",">">>, <<"s","t","r","u","c","t","<","a",":","i","n","t",">">>}}

-----------------------------------------------------------------------------
(* The pipeline *)

NoCall == [exc |-> "none", val |-> PyNone]

InitCommon ==
    /\ raw = schema
    /\ col = 1
    /\ original_type_field = <<>>
    /\ iteration_count = 0
    /\ i = 0
    /\ prev_field = <<>>
    /\ opening = -1
    /\ closing = -1
    /\ kind = <<>>
    /\ fields_from_string = <<>>
    /\ replaced = <<>>
    /\ parsed = NoCall
    /\ imported_fields = PyNone
    /\ err = "none"
    /\ mapped = NoCall

\* one column of one table
Init ==
    /\ schema \in SingleSchemas
    /\ pc = "format"
    /\ sql_type = PyNone
    /\ InitCommon

\* several columns, whose names may repeat
InitBatch ==
    /\ schema \in BatchSchemas
    /\ pc = "format"
    /\ sql_type = PyNone
    /\ InitCommon

\* the type-name mapper on its own
InitMap ==
    /\ schema = <<>>
    /\ pc = "map"
    /\ sql_type \in MapInputs
    /\ InitCommon

\* the column format_schema is at, and its Type
Column_ == schema[col]
IsComposite(t) == StartsWith(t, <<"a","r","r","a","y","<">>) \/ StartsWith(t, <<"s","t","r","u","c","t","<">>)

\* format_schema, a column whose Type starts with array< or struct<: the call
\* of generate_sub_fields, up to its loop
FormatCompositeColumn ==
    /\ pc = "format"
    /\ col <= Len(schema)
    /\ IsComposite(Get(Column_, <<"T","y","p","e">>).s)
    /\ original_type_field' = Get(Column_, <<"T","y","p","e">>).s
    /\ iteration_count' = Count(Get(Column_, <<"T","y","p","e">>).s, "<")
    /\ i' = 0
    /\ prev_field' = <<>>
    /\ opening' = -1
    /\ closing' = -1
    /\ kind' = <<>>
    /\ fields_from_string' = <<>>
    /\ replaced' = <<>>
    /\ parsed' = NoCall
    /\ pc' = "loop"
    /\ UNCHANGED <<schema, raw, col, imported_fields, err, sql_type, mapped>>

\* format_schema, any other column: left as it is
FormatPlainColumn ==
    /\ pc = "format"
    /\ col <= Len(schema)
    /\ ~IsComposite(Get(Column_, <<"T","y","p","e">>).s)
    /\ col' = col + 1
    /\ UNCHANGED <<schema, raw, pc, original_type_field, iteration_count, i, prev_field,
                   opening, closing, kind, fields_from_string, replaced, parsed,
                   imported_fields, err, sql_type, mapped>>

\* generate_sub_fields: one iteration of the loop
GenerateSubFieldsLoop ==
    /\ pc = "loop"
    /\ i < iteration_count
    /\ LET r == LoopBody(original_type_field)
       IN  /\ prev_field' = original_type_field
           /\ opening' = OpeningIndex(original_type_field)
           /\ closing' = ClosingIndex(original_type_field)
           /\ original_type_field' = r.s
           /\ kind' = r.kind
           /\ fields_from_string' = r.pieces
           /\ err' = r.exc
           /\ pc' = IF r.exc = "none" THEN "loop" ELSE "error"
    /\ i' = i + 1
    /\ UNCHANGED <<schema, raw, col, iteration_count, replaced, parsed, imported_fields,
                   sql_type, mapped>>

\* generate_sub_fields after the loop, and format_schema's use of what it
\* returns: the Items or Fields of the value go into the column, whose Type
\* becomes the bare "array" or "struct"
GenerateSubFieldsReturn ==
    /\ pc = "loop"
    /\ i = iteration_count
    /\ LET text == FinalText(original_type_field)
           r == json_loads(text)
           isArray == StartsWith(Get(Column_, <<"T","y","p","e">>).s, <<"a","r","r","a","y","<">>)
           key == IF isArray THEN <<"I","t","e","m","s">> ELSE <<"F","i","e","l","d","s">>
           exc == IF r.exc # "none" THEN r.exc
                  ELSE IF r.val.tag # "dict" THEN "TypeError"
                  ELSE IF ~HasKey(r.val, key) THEN "KeyError"
                  ELSE "none"
       IN  /\ replaced' = text
           /\ parsed' = r
           /\ err' = exc
           /\ IF exc = "none"
              THEN /\ schema' = [schema EXCEPT ![col] =
                          DictSet(DictSet(@, key, Get(r.val, key)), <<"T","y","p","e">>,
                                  PyStr(IF isArray THEN <<"a","r","r","a","y">> ELSE <<"s","t","r","u","c","t">>))]
                   /\ col' = col + 1
                   /\ pc' = "format"
              ELSE /\ pc' = "error"
                   /\ UNCHANGED <<schema, col>>
    /\ UNCHANGED <<raw, original_type_field, iteration_count, i, prev_field, opening,
                   closing, kind, fields_from_string, imported_fields, sql_type, mapped>>

\* import_glue, once format_schema has returned: import_record_fields on the schema
ImportRecordFields ==
    /\ pc = "format"
    /\ col > Len(schema)
    /\ LET r == import_record_fields(PyList(schema))
       IN  /\ imported_fields' = r.val
           /\ err' = r.exc
           /\ pc' = IF r.exc = "none" THEN "done" ELSE "error"
    /\ UNCHANGED <<schema, raw, col, original_type_field, iteration_count, i, prev_field,
                   opening, closing, kind, fields_from_string, replaced, parsed,
                   sql_type, mapped>>

\* map_type_from_sql on its own
MapType ==
    /\ pc = "map"
    /\ mapped' = map_type_from_sql(sql_type)
    /\ pc' = "mapped"
    /\ UNCHANGED <<schema, raw, col, original_type_field, iteration_count, i, prev_field,
                   opening, closing, kind, fields_from_string, replaced, parsed,
                   imported_fields, err, sql_type>>

Next ==
    \/ FormatCompositeColumn
    \/ FormatPlainColumn
    \/ GenerateSubFieldsLoop
    \/ GenerateSubFieldsReturn
    \/ ImportRecordFields

NextMap == MapType

Spec == Init /\ [][Next]_vars
SpecBatch == InitBatch /\ [][Next]_vars
SpecMap == InitMap /\ [][NextMap]_vars

-----------------------------------------------------------------------------
(* What the properties are stated with *)

\* the raw type string of the (first) column, as it was handed in
RawType == Get(raw[1], <<"T","y","p","e">>).s

\* the pipeline has ended, with a result or with an exception
Ended == pc \in {"done", "error"}

\* generate_sub_fields has been called for the column / has come to its end
Called == original_type_field # <<>>
Returned == replaced # <<>>

\* the Field built for the (first) column
TopField == Get(imported_fields, Get(raw[1], <<"N","a","m","e">>))

IsField(v) == v.tag = "Field"
IsMapping(v) == v.tag = "dict"
TypeOf(v) == IF IsField(v) THEN v.type ELSE PyNone
ItemsOf(v) == IF IsField(v) THEN v.items ELSE PyNone
FieldsOf(v) == IF IsField(v) THEN v.fields ELSE PyNone

\* the bracket depth after the first k characters of t
DepthAt(t, k) == Count(SubSeq(t, 1, k), "<") - Count(SubSeq(t, 1, k), ">")
\* every '>' closes an open '<', and none stays open
IsBalanced(t) == (\A k \in 1..Len(t) : DepthAt(t, k) >= 0) /\ DepthAt(t, Len(t)) = 0
\* the maximum bracket nesting depth of t
NestingDepth(t) ==
    CHOOSE d \in 0..Len(t) : /\ \A k \in 0..Len(t) : DepthAt(t, k) <= d
                             /\ \E k \in 0..Len(t) : DepthAt(t, k) = d
\* the position of the '>' that closes the '<' at position p (1-based)
MatchingClose(t, p) ==
    LET cands == {q \in (p + 1)..Len(t) : t[q] = ">" /\ DepthAt(t, q) = DepthAt(t, p) - 1}
    IN  IF cands = {} THEN 0 ELSE CHOOSE q \in cands : \A m \in cands : q <= m
\* the position of the k-th '<' of t, from the left
NthOpen(t, k) ==
    CHOOSE p \in 1..Len(t) : t[p] = "<" /\ Count(SubSeq(t, 1, p), "<") = k
\* no ',' of t lies inside the parentheses of a scalar name
InParens(t, k) == Count(SubSeq(t, 1, k), "(") > Count(SubSeq(t, 1, k), ")")
CommaFreeScalars(t) == \A k \in 1..Len(t) : t[k] = "," => ~InParens(t, k)

\* the names of the fields declared at the top level of the struct whose '<'
\* is at position p of t, in source order
TopLevelNames(t, p) ==
    LET q == MatchingClose(t, p)
        cuts == {k \in (p + 1)..(q - 1) : t[k] = "," /\ DepthAt(t, k) = DepthAt(t, p)}
        starts == {p + 1} \cup {k + 1 : k \in cuts}
        nth(n) == CHOOSE b \in starts : Cardinality({c \in starts : c < b}) = n - 1
        colon(b) == CHOOSE k \in b..q : t[k] = ":" /\ \A m \in b..(k - 1) : t[m] # ":"
    IN  [n \in 1..Cardinality(starts) |-> SubSeq(t, nth(n), colon(nth(n)) - 1)]

\* the name of a piece of a split struct content: what stands before its first ':'
PieceName(piece) == SliceTo(piece, Find(piece, ":"))

\* the depth of a type tree as generate_sub_fields returns it, and whether
\* every leaf of it is a plain scalar name
RECURSIVE TreeDepth(_), LeavesAreScalars(_)
TreeDepth(d) ==
    IF ~IsMapping(d) THEN 0
    ELSE IF HasKey(d, <<"I","t","e","m","s">>) THEN 1 + TreeDepth(Get(d, <<"I","t","e","m","s">>))
    ELSE IF HasKey(d, <<"F","i","e","l","d","s">>) /\ Get(d, <<"F","i","e","l","d","s">>).tag = "list"
    THEN LET xs == Get(d, <<"F","i","e","l","d","s">>).xs
         IN  1 + (CHOOSE m \in {TreeDepth(xs[n]) : n \in 1..Len(xs)} \cup {0} :
                     \A n \in 1..Len(xs) : TreeDepth(xs[n]) <= m)
    ELSE 0
LeavesAreScalars(d) ==
    IF ~IsMapping(d) THEN FALSE
    ELSE IF HasKey(d, <<"I","t","e","m","s">>) THEN LeavesAreScalars(Get(d, <<"I","t","e","m","s">>))
    ELSE IF HasKey(d, <<"F","i","e","l","d","s">>) /\ Get(d, <<"F","i","e","l","d","s">>).tag = "list"
    THEN \A n \in 1..Len(Get(d, <<"F","i","e","l","d","s">>).xs) : LeavesAreScalars(Get(d, <<"F","i","e","l","d","s">>).xs[n])
    ELSE /\ Get(d, <<"T","y","p","e">>).tag = "str"
         /\ Get(d, <<"T","y","p","e">>).s \in ScalarNames
         /\ Count(Get(d, <<"T","y","p","e">>).s, "<") = 0
         /\ Count(Get(d, <<"T","y","p","e">>).s, ">") = 0

\* the Fields below f: the values of its fields mapping, its items, and
\* whatever else was put in fields
Children(f) ==
    (IF IsMapping(FieldsOf(f)) THEN {FieldsOf(f).m[n].v : n \in 1..Len(FieldsOf(f).m)} ELSE {})
    \cup (IF IsField(FieldsOf(f)) THEN {FieldsOf(f)} ELSE {})
    \cup (IF IsField(ItemsOf(f)) THEN {ItemsOf(f)} ELSE {})
StructChildren(f) ==
    IF IsMapping(FieldsOf(f)) THEN {FieldsOf(f).m[n].v : n \in 1..Len(FieldsOf(f).m)} ELSE {}

\* items present iff type = "array", fields a mapping iff type = "struct", at
\* f and at every Field below it
RECURSIVE ShapeHolds(_)
ShapeHolds(f) ==
    /\ (ItemsOf(f) # PyNone) <=> (TypeOf(f) = PyStr(<<"a","r","r","a","y">>))
    /\ (FieldsOf(f) # PyNone) <=> (TypeOf(f) = PyStr(<<"s","t","r","u","c","t">>))
    /\ (FieldsOf(f) # PyNone) => IsMapping(FieldsOf(f))
    /\ \A c \in Children(f) : ShapeHolds(c)

\* no Field below f has a required value or a description
RECURSIVE NestedCarryNothing(_)
NestedCarryNothing(f) ==
    \A c \in Children(f) :
        /\ c.required = PyNone
        /\ c.description = PyNone
        /\ NestedCarryNothing(c)

\* below f: a struct's child has required = False, an array's items have no
\* required value, and neither has a description
RECURSIVE NestedCarryNoFlag(_)
NestedCarryNoFlag(f) ==
    \A c \in Children(f) :
        /\ c.required = (IF c \in StructChildren(f) THEN PyBool(FALSE) ELSE PyNone)
        /\ c.description = PyNone
        /\ NestedCarryNoFlag(c)

\* what the ordered table gives for a present string: the target of the
\* first key that is a prefix of the string, letter case aside
IsPrefixIgnoringCase(key, s) ==
    Len(s) >= Len(key) /\ \A k \in 1..Len(key) : LowerChar(s[k]) = key[k]
TableLookup(s) ==
    LET hits == {n \in 1..Len(TypeTable) : IsPrefixIgnoringCase(TypeTable[n][1], s)}
    IN  IF hits = {} THEN <<"v","a","r","i","a","n","t">>
        ELSE TypeTable[CHOOSE n \in hits : \A m \in hits : n <= m][2]

-----------------------------------------------------------------------------
(* The properties *)

\* C1: for the raw type struct<a:string,b:array<int>> the pipeline ends with
\* a Field of type "struct" whose fields are a and b in that order, a of type
\* "string" and b of type "array" with items of type "integer".
C1_Scenario4 ==
    (RawType = <<"s","t","r","u","c","t","<","a",":","s","t","r","i","n","g",",","b",":","a","r","r","a","y","<","i","n","t",">",">">> /\ Ended) =>
        /\ pc = "done"
        /\ TypeOf(TopField) = PyStr(<<"s","t","r","u","c","t">>)
        /\ IsMapping(FieldsOf(TopField))
        /\ [n \in 1..Len(FieldsOf(TopField).m) |-> FieldsOf(TopField).m[n].k]
               = <<PyStr(<<"a">>), PyStr(<<"b">>)>>
        /\ TypeOf(Get(FieldsOf(TopField), PyStr(<<"a">>))) = PyStr(<<"s","t","r","i","n","g">>)
        /\ TypeOf(Get(FieldsOf(TopField), PyStr(<<"b">>))) = PyStr(<<"a","r","r","a","y">>)
        /\ TypeOf(ItemsOf(Get(FieldsOf(TopField), PyStr(<<"b">>)))) = PyStr(<<"i","n","t","e","g","e","r">>)

\* C2: in the Field tree built for a well-formed type string, at every node
\* and depth, items is present iff the type is "array" and fields is present,
\* as a mapping, iff the type is "struct".
C2_ItemsAndFieldsFollowType ==
    (RawType \in WellFormedTypes /\ pc = "done") => ShapeHolds(TopField)

\* C3: a column whose raw type has no '<' never reaches the normalizer, and
\* the pipeline ends without error in a Field whose type is
\* map_type_from_sql(raw type), with no fields and no items.
C3_BracketFreeIsScalar ==
    (Count(RawType, "<") = 0) =>
        /\ ~Called
        /\ pc # "loop"
        /\ Ended =>
            /\ pc = "done"
            /\ TypeOf(TopField) = map_type_from_sql(PyStr(RawType)).val
            /\ FieldsOf(TopField) = PyNone
            /\ ItemsOf(TopField) = PyNone

\* C4: a raw type that starts with array< or struct< and whose brackets are
\* unbalanced ends in UnbalancedBracketsError, which is not the error of a
\* literal that does not parse, and never in a type tree.
C4_UnbalancedIsItsOwnError ==
    (IsComposite(RawType) /\ ~IsBalanced(RawType) /\ (Ended \/ Returned)) =>
        /\ err = "UnbalancedBracketsError"
        /\ err # "JSONDecodeError"
        /\ parsed.val = PyNone

\* C5: map_type_from_sql gives, for a present string, the target of the first
\* key of the ordered table that is a prefix of the string, letter case
\* aside, "variant" when no key is, and for an absent argument an absent
\* result.
C5_MapperFollowsTable ==
    (pc = "mapped") =>
        /\ mapped.exc = "none"
        /\ mapped.val = (IF sql_type = PyNone THEN PyNone ELSE PyStr(TableLookup(sql_type.s)))

\* a name in capitals with a parenthesized suffix has been mapped, and so has
\* a name no key is a prefix of
C5_Witness ==
    /\ pc = "mapped"
    /\ sql_type \in {PyStr(<<"B","I","G","I","N","T","(","2","0",")">>), PyStr(<<"w","e","i","r","d","t","y","p","e","1","2","3">>)}
    /\ mapped.val \in {PyStr(<<"l","o","n","g">>), PyStr(<<"v","a","r","i","a","n","t">>)}

LastWithName(n) ==
    CHOOSE m \in 1..Len(schema) :
        /\ Get(schema[m], <<"N","a","m","e">>) = Get(schema[n], <<"N","a","m","e">>)
        /\ \A k \in (m + 1)..Len(schema) : Get(schema[k], <<"N","a","m","e">>) # Get(schema[n], <<"N","a","m","e">>)

\* C7: import_record_fields returns one entry per distinct column name, and
\* the entry of a name holds the Field built from the last record of that
\* name.
C7_LastWriteWins ==
    (pc = "done") =>
        /\ IsMapping(imported_fields)
        /\ \A m, n \in 1..Len(imported_fields.m) :
               imported_fields.m[m].k = imported_fields.m[n].k => m = n
        /\ {imported_fields.m[n].k : n \in 1..Len(imported_fields.m)}
               = {Get(raw[n], <<"N","a","m","e">>) : n \in 1..Len(raw)}
        /\ \A n \in 1..Len(schema) :
               Get(imported_fields, Get(schema[n], <<"N","a","m","e">>))
                   = ImportedField(schema[LastWithName(n)]).val

\* two records of one name and different types have been imported
C7_Witness ==
    /\ pc = "done"
    /\ Len(raw) = 2
    /\ Get(raw[1], <<"N","a","m","e">>) = Get(raw[2], <<"N","a","m","e">>)
    /\ Get(raw[1], <<"T","y","p","e">>) = PyStr(<<"s","t","r","u","c","t","<","a",":","i","n","t",">">>)
    /\ Get(raw[2], <<"T","y","p","e">>) = PyStr(<<"s","t","r","i","n","g">>)
    /\ Len(imported_fields.m) = 1

\* C8: for a well-formed type string, generate_sub_fields returns a tree
\* whose depth is the maximum bracket nesting depth of the string and whose
\* leaves are scalar names without '<' or '>'.
C8_DepthIsNestingDepth ==
    (RawType \in WellFormedTypes /\ Returned) =>
        /\ parsed.exc = "none"
        /\ TreeDepth(parsed.val) = NestingDepth(RawType)
        /\ LeavesAreScalars(parsed.val)

\* C9: for a well-formed type string with n '<', the loop runs n iterations;
\* each takes the rightmost '<' of the working string and the first '>' after
\* it, which is its matching close, and leaves one '<' and one '>' less.
C9_OnePairPerIteration ==
    (RawType \in WellFormedTypes /\ Called) =>
        /\ iteration_count = Count(RawType, "<")
        /\ i <= iteration_count
        /\ (Returned \/ Ended) => i = iteration_count
        /\ Count(original_type_field, "<") = iteration_count - i
        /\ Count(original_type_field, ">") = iteration_count - i
        /\ i >= 1 =>
            /\ prev_field[opening + 1] = "<"
            /\ \A k \in (opening + 2)..Len(prev_field) : prev_field[k] # "<"
            /\ closing + 1 = MatchingClose(prev_field, opening + 1)
            /\ \A k \in (opening + 2)..closing : prev_field[k] # ">"

\* the loop has run three times on a string of three brackets
C9_Witness ==
    /\ RawType \in WellFormedTypes
    /\ iteration_count = 3
    /\ i = 3
    /\ pc = "loop"
    /\ Count(original_type_field, "<") = 0

\* C10: for a well-formed type string whose scalar names hold no comma, the
\* split of a struct's content yields one piece per field declared at the top
\* level of that struct, in source order; the rewritten literals hold no ','
\* before the final replacement.
C10_OnePiecePerField ==
    (RawType \in WellFormedTypes /\ CommaFreeScalars(RawType) /\ Called) =>
        /\ (i >= 1 /\ kind = <<"s","t","r","u","c","t">>) =>
            LET names == TopLevelNames(RawType, NthOpen(RawType, iteration_count - i + 1))
            IN  /\ Len(fields_from_string) = Len(names)
                /\ \A n \in 1..Len(names) : PieceName(fields_from_string[n]) = names[n]
                /\ Count(original_type_field, ",")
                       = Count(prev_field, ",") - (Len(names) - 1)
        /\ (i >= 1 /\ kind = <<"a","r","r","a","y">>) =>
               Count(original_type_field, ",") = Count(prev_field, ",")
        /\ i = iteration_count => Count(original_type_field, ",") = 0
        /\ Returned => Count(replaced, ",") = Count(original_type_field, Separator)

\* the content of an outer struct, whose one field is an already rewritten
\* struct of two fields, has been split
C10_Witness ==
    /\ RawType = <<"s","t","r","u","c","t","<","a",":","s","t","r","u","c","t","<","a",":","i","n","t",",","b",":","s","t","r","i","n","g",">",">">>
    /\ i = 2
    /\ kind = <<"s","t","r","u","c","t">>
    /\ Len(fields_from_string) = 1
    /\ Count(fields_from_string[1], Separator) >= 3

=============================================================================
